---- MODULE Spec2Model ----
(***************************************************************************)
(* Model of pkg/report/report.go: the crash detector (containsCrash,      *)
(* matchOops), the title extractor (extractDescription) and the in-place  *)
(* byte-range replacement (replace).                                      *)
(*                                                                         *)
(* Byte buffers are sequences of byte values; Go's 0-based half-open      *)
(* slice s[a:b] is Slice(s, a, b).  A regular expression is modelled by   *)
(* the family "optional start-of-text anchor, literal, optional greedy    *)
(* capture group over a byte class", as in ^BUG: ([a-z]+) .               *)
(***************************************************************************)
EXTENDS Integers, Sequences, FiniteSets, TLC

(* ------------------------------ bounds -------------------------------- *)

\* short outputs: at most one byte of H or x, then at most MaxSuf bytes
MaxSuf == 3
\* long outputs: H, a run of maxDescLen - PadSlack bytes x, then at most
\* MaxTail bytes, so that titles on both sides of the 180-byte limit occur
PadSlack == 2
MaxTail == 2
\* replace: longest buffer, longest replacement, spare capacity
MaxWhere == 3
MaxWhat == 3
MaxSpare == 1

(* --------------------------- program constants ------------------------ *)

LF == 10
CR == 13
maxDescLen == 180

\* 'H' (the header byte) and 'x' (any other text byte)
Bytes == {LF, CR, 72, 120}

(* ------------------------------ helpers ------------------------------- *)

\* Go s[a:b]
Slice(s, a, b) == SubSeq(s, a + 1, b)

Min(S) == CHOOSE m \in S : \A o \in S : m <= o

\* bytes.Index(s, sep): offset of the first occurrence of sep in s, or -1
Index(s, sep) ==
    LET hits == { i \in 0 .. (Len(s) - Len(sep)) : Slice(s, i, i + Len(sep)) = sep }
    IN  IF hits = {} THEN -1 ELSE Min(hits)

\* bytes.IndexByte(s, c)
IndexByte(s, c) == Index(s, <<c>>)

\* all sequences over S of length at most n
RECURSIVE SeqsUpTo(_, _)
SeqsUpTo(S, n) ==
    IF n = 0 THEN { <<>> }
    ELSE LET shorter == SeqsUpTo(S, n - 1)
         IN  shorter \cup { Append(s, b) : s \in shorter, b \in S }

\* n copies of byte b
Run(b, n) == [ i \in 1 .. n |-> b ]

(* ------------------------------ regexp -------------------------------- *)

Re(anch, lit, cap, cls) ==
    [ nil |-> FALSE, anch |-> anch, lit |-> lit, cap |-> cap, cls |-> cls ]

\* the nil *regexp.Regexp of a zero oopsFormat
NilRe == [ nil |-> TRUE, anch |-> FALSE, lit |-> <<>>, cap |-> FALSE, cls |-> {} ]

\* length of the longest run of bytes of cls in s starting at offset from
RECURSIVE ClassRun(_, _, _)
ClassRun(s, from, cls) ==
    IF from < Len(s) /\ s[from + 1] \in cls
    THEN 1 + ClassRun(s, from + 1, cls)
    ELSE 0

\* (*Regexp).FindSubmatchIndex(s): <<>> for nil, else the leftmost match as
\* <<start, end>> followed by <<capStart, capEnd>> of the capture group
FindSubmatchIndex(re, s) ==
    LET cand  == IF re.anch THEN {0} ELSE 0 .. (Len(s) - Len(re.lit))
        hits  == { i \in cand : /\ i + Len(re.lit) <= Len(s)
                                /\ Slice(s, i, i + Len(re.lit)) = re.lit }
    IN  IF hits = {} THEN <<>>
        ELSE LET st == Min(hits)
                 ce == st + Len(re.lit)
             IN  IF re.cap
                 THEN LET k == ClassRun(s, ce, re.cls)
                      IN  <<st, ce + k, ce, ce + k>>
                 ELSE <<st, ce>>

\* (*Regexp).Match(s)
Match(re, s) == FindSubmatchIndex(re, s) # <<>>

\* the verb %s as bytes
PctS == <<37, 115>>

\* fmt.Sprintf(f, args...) for a template of literal bytes and %s verbs with
\* string arguments; each verb consumes the next argument
RECURSIVE Sprintf(_, _)
Sprintf(f, args) ==
    IF f = <<>> THEN <<>>
    ELSE IF Len(f) >= 2 /\ Slice(f, 0, 2) = PctS
         THEN Head(args) \o Sprintf(Slice(f, 2, Len(f)), Tail(args))
         ELSE <<Head(f)>> \o Sprintf(Tail(f), args)

(* ------------------------------ detector ------------------------------ *)

RECURSIVE AnyMatch(_, _)
AnyMatch(res, line) ==
    IF res = <<>> THEN FALSE
    ELSE Match(Head(res), line) \/ AnyMatch(Tail(res), line)

\* matchOops without the loop over the ignores
matchOops_NoIgnores(line, oops, ignores) ==
    LET match == Index(line, oops.header)
    IN  IF match = -1 THEN -1
        ELSE IF AnyMatch(oops.suppressions, line) THEN -1
        ELSE match

matchOops(line, oops, ignores) ==
    LET match == Index(line, oops.header)
    IN  IF match = -1 THEN -1
        ELSE IF AnyMatch(oops.suppressions, line) THEN -1
        ELSE IF AnyMatch(ignores, line) THEN -1
        ELSE match

\* end offset of the line that starts at pos
LineEnd(output, pos) ==
    LET next == IndexByte(Slice(output, pos, Len(output)), LF)
    IN  IF next # -1 THEN next + pos ELSE Len(output)

\* the inner loop: index of the first signature accepted on the line, or 0
RECURSIVE FirstOops(_, _, _, _)
FirstOops(line, oopses, ignores, i) ==
    IF i > Len(oopses) THEN 0
    ELSE IF matchOops(line, oopses[i], ignores) = -1
         THEN FirstOops(line, oopses, ignores, i + 1)
         ELSE i

\* the outer loop from offset pos: where and for which signature it stops
RECURSIVE ScanFrom(_, _, _, _)
ScanFrom(output, oopses, ignores, pos) ==
    IF pos < Len(output)
    THEN LET next == LineEnd(output, pos)
             i    == FirstOops(Slice(output, pos, next), oopses, ignores, 1)
         IN  IF i # 0
             THEN [ found |-> TRUE, pos |-> pos, oops |-> i ]
             ELSE ScanFrom(output, oopses, ignores, next + 1)
    ELSE [ found |-> FALSE, pos |-> pos, oops |-> 0 ]

containsCrash(output, oopses, ignores) ==
    ScanFrom(output, oopses, ignores, 0).found

(* ------------------------------ extractor ----------------------------- *)

\* the zero oopsFormat
NoFormat == [ title |-> NilRe, fmt |-> <<>>, corrupted |-> FALSE ]

\* the arguments of Sprintf: the capture groups of match, in order
RECURSIVE Args(_, _, _)
Args(output, match, i) ==
    IF i < Len(match)
    THEN <<Slice(output, match[i + 1], match[i + 2])>> \o Args(output, match, i + 2)
    ELSE <<>>

\* the loop body with startPos < match[0] for startPos <= match[0]: on a
\* tie the later format overrides
FormatStep_TieOverrides(output, st, f) ==
    LET match == FindSubmatchIndex(f.title, output)
    IN  IF match = <<>> THEN st
        ELSE IF st.startPos # -1 /\ st.startPos < match[1] THEN st
        ELSE [ startPos |-> match[1],
               desc     |-> Sprintf(f.fmt, Args(output, match, 2)),
               report   |-> Slice(output, match[1], Len(output)),
               format   |-> f ]

\* one iteration of the loop over oops.formats
FormatStep(output, st, f) ==
    LET match == FindSubmatchIndex(f.title, output)
    IN  IF match = <<>> THEN st
        ELSE IF st.startPos # -1 /\ st.startPos <= match[1] THEN st
        ELSE [ startPos |-> match[1],
               desc     |-> Sprintf(f.fmt, Args(output, match, 2)),
               report   |-> Slice(output, match[1], Len(output)),
               format   |-> f ]

RECURSIVE FormatsLoop(_, _, _)
FormatsLoop(output, st, formats) ==
    IF formats = <<>> THEN st
    ELSE FormatsLoop(output, FormatStep(output, st, Head(formats)), Tail(formats))

\* the fallback without end += pos: the line end is taken relative to pos
Fallback_RelativeEnd(output, oops, st) ==
    IF Len(st.desc) = 0
    THEN LET pos == Index(output, oops.header)
         IN  IF pos = -1
             THEN [ panic |-> TRUE, desc |-> st.desc, report |-> st.report,
                    format |-> st.format ]
             ELSE LET e   == IndexByte(Slice(output, pos, Len(output)), LF)
                      end == IF e = -1 THEN Len(output) ELSE e
                  IN  [ panic |-> FALSE, desc |-> Slice(output, pos, end),
                        report |-> Slice(output, pos, Len(output)),
                        format |-> st.format ]
    ELSE [ panic |-> FALSE, desc |-> st.desc, report |-> st.report,
           format |-> st.format ]

\* the fallback with pos <= 0 for pos == -1: a header at offset 0 panics
Fallback_ZeroIsAbsent(output, oops, st) ==
    IF Len(st.desc) = 0
    THEN LET pos == Index(output, oops.header)
         IN  IF pos <= 0
             THEN [ panic |-> TRUE, desc |-> st.desc, report |-> st.report,
                    format |-> st.format ]
             ELSE LET e   == IndexByte(Slice(output, pos, Len(output)), LF)
                      end == IF e = -1 THEN Len(output) ELSE e + pos
                  IN  [ panic |-> FALSE, desc |-> Slice(output, pos, end),
                        report |-> Slice(output, pos, Len(output)),
                        format |-> st.format ]
    ELSE [ panic |-> FALSE, desc |-> st.desc, report |-> st.report,
           format |-> st.format ]

\* the header fallback, taken when the title is empty after the loop
Fallback(output, oops, st) ==
    IF Len(st.desc) = 0
    THEN LET pos == Index(output, oops.header)
         IN  IF pos = -1
             THEN [ panic |-> TRUE, desc |-> st.desc, report |-> st.report,
                    format |-> st.format ]
             ELSE LET e   == IndexByte(Slice(output, pos, Len(output)), LF)
                      end == IF e = -1 THEN Len(output) ELSE e + pos
                  IN  [ panic |-> FALSE, desc |-> Slice(output, pos, end),
                        report |-> Slice(output, pos, Len(output)),
                        format |-> st.format ]
    ELSE [ panic |-> FALSE, desc |-> st.desc, report |-> st.report,
           format |-> st.format ]

StripCR(desc) ==
    IF Len(desc) > 0 /\ desc[Len(desc)] = CR
    THEN Slice(desc, 0, Len(desc) - 1)
    ELSE desc

\* the cut with >= for >, keeping one byte less
Truncate_OneShort(desc) ==
    IF Len(desc) >= maxDescLen THEN Slice(desc, 0, maxDescLen - 1) ELSE desc

Truncate(desc) ==
    IF Len(desc) > maxDescLen THEN Slice(desc, 0, maxDescLen) ELSE desc

extractDescription(output, oops) ==
    LET st == FormatsLoop(output,
                  [ startPos |-> -1, desc |-> <<>>, report |-> <<>>,
                    format |-> NoFormat ],
                  oops.formats)
        fb == Fallback(output, oops, st)
    IN  IF fb.panic THEN fb
        ELSE [ fb EXCEPT !.desc = Truncate(StripCR(fb.desc)) ]

(* ------------------------------- replace ------------------------------ *)

\* copy(dst, src) for dst = mem[d:dEnd] and src given by value: the first
\* min(len(dst), len(src)) bytes of src land at offset d
CopyInto(mem, d, dEnd, src) ==
    LET k == IF dEnd - d < Len(src) THEN dEnd - d ELSE Len(src)
    IN  [ i \in 1 .. Len(mem) |-> IF i > d /\ i <= d + k THEN src[i - d] ELSE mem[i] ]

\* the shift done byte by byte from the front, as a copy that assumes
\* disjoint regions does
RECURSIVE ForwardCopy(_, _, _, _)
ForwardCopy(mem, d, s, cnt) ==
    IF cnt = 0 THEN mem
    ELSE ForwardCopy([ mem EXCEPT ![d + 1] = mem[s + 1] ], d + 1, s + 1, cnt - 1)

MoveTail_Forward(mem, len, d, s) ==
    ForwardCopy(mem, d, s, IF len - d < len - s THEN len - d ELSE len - s)

\* copy(where[d:], where[s:]) inside one array of length len: Go's copy
\* moves the bytes as if through a temporary, whatever the overlap
MoveTail(mem, len, d, s) ==
    CopyInto(mem, d, len, Slice(mem, s, len))

\* append(where, what...) for append(where, what[end-start:]...)
Extra_Whole(w, start, end) == w

\* what[end-start:], the bytes that append adds to where
Extra(w, start, end) == Slice(w, end - start, Len(w))

\* the bytes of a replacement: its own, or the view's bytes in array mem
WhatBytes(mem, what) ==
    IF what.view THEN Slice(mem, what.off, what.off + what.len) ELSE what.bytes

\* replace(where, start, end, what) for where = mem[0:n] with capacity
\* Len(mem).  Returns arr/len, the returned buffer and its backing array,
\* and old, the array the caller's where and what still refer to.
replace(mem, n, start, end, what) ==
    LET wl == IF what.view THEN what.len ELSE Len(what.bytes)
    IN  IF wl >= end - start
        THEN LET extra   == Extra(WhatBytes(mem, what), start, end)
                 n1      == n + Len(extra)
                 inplace == n1 <= Len(mem)
                 \* append: in place when the capacity allows, otherwise into
                 \* a new array, which a view of the old one does not follow
                 mem1    == IF inplace THEN CopyInto(mem, n, n1, extra)
                            ELSE Slice(mem, 0, n) \o extra
                 mem2    == MoveTail(mem1, n1, start + wl, end)
                 w2      == IF inplace THEN WhatBytes(mem2, what)
                            ELSE WhatBytes(mem, what)
                 mem3    == CopyInto(mem2, start, n1, w2)
             IN  [ arr |-> mem3, len |-> n1, old |-> IF inplace THEN mem3 ELSE mem ]
        ELSE LET mem1 == MoveTail(mem, n, start + wl, end)
                 n1   == n - (end - start - wl)
                 mem2 == CopyInto(mem1, start, n1, WhatBytes(mem1, what))
             IN  [ arr |-> mem2, len |-> n1, old |-> mem2 ]

(* ------------------------------- inputs ------------------------------- *)

\* title patterns with their templates; each template has as many verbs as
\* its pattern has capture groups, as the registries keep it:
\*   FA  H(x*)       "%s"    (the title is empty when nothing follows H)
\*   FB  x           "B"
\*   FC  H([x\r]*)   "C%s"   (marks the report corrupted)
FA == [ title |-> Re(FALSE, <<72>>, TRUE, {120}), fmt |-> PctS,
        corrupted |-> FALSE ]
FB == [ title |-> Re(FALSE, <<120>>, FALSE, {}), fmt |-> <<66>>,
        corrupted |-> FALSE ]
FC == [ title |-> Re(FALSE, <<72>>, TRUE, {120, CR}), fmt |-> <<67>> \o PctS,
        corrupted |-> TRUE ]

FormatLists == { <<>>, <<FA>>, <<FA, FC>>, <<FC, FA>>, <<FB, FC>>, <<FC, FB>> }

\* suppression Hx, ignore ^x
SuppLists == { <<>>, << Re(FALSE, <<72, 120>>, FALSE, {}) >> }
IgnoreLists == { <<>>, << Re(TRUE, <<120>>, FALSE, {}) >> }

Oops(header, formats, suppressions) ==
    [ header |-> header, formats |-> formats, suppressions |-> suppressions ]

\* signatures with header H, and three with header xx, one of them with a
\* format that matches where the header is absent
OopsH == { Oops(<<72>>, fs, ss) : fs \in FormatLists, ss \in SuppLists }
OopsX == { Oops(<<120, 120>>, fs, <<>>) : fs \in { <<>>, <<FB>>, <<FA>> } }

OopsLists ==
    { <<o>> : o \in OopsH \cup OopsX }
    \cup { <<o, Oops(<<72>>, <<>>, ss)>> : o \in OopsX, ss \in SuppLists }

\* console output: short buffers of every shape, and long first lines
Outputs ==
    { pre \o suf : pre \in { <<>>, <<72>>, <<120>> }, suf \in SeqsUpTo(Bytes, MaxSuf) }
    \cup { <<72>> \o Run(120, maxDescLen - PadSlack) \o tail :
             tail \in SeqsUpTo(Bytes, MaxTail) }

\* replace moves bytes and never inspects them, so a buffer whose bytes
\* are pairwise distinct shows every misplaced byte: byte i of the backing
\* array is i, byte j of a replacement with its own storage is 100 + j
Backing(cap) == [ i \in 1 .. cap |-> i ]
OwnWhat(len) == [ view |-> FALSE, bytes |-> [ j \in 1 .. len |-> 100 + j ],
                  off |-> 0, len |-> 0 ]
CopyWhat(bytes) == [ view |-> FALSE, bytes |-> bytes, off |-> 0, len |-> 0 ]
ViewWhat(off, len) == [ view |-> TRUE, bytes |-> <<>>, off |-> off, len |-> len ]

(* ------------------------------- state -------------------------------- *)

VARIABLES
    output,     \* the console output under scan
    oopses,     \* the registry of signatures
    ignores,    \* the caller's ignore patterns
    pc,         \* "ready", "detected", "parsed", "extracted"
    crash,      \* what containsCrash returned
    sig,        \* index of the signature handed to extractDescription, or 0
    rep,        \* what extractDescription / Parse returned
    where,      \* replace: backing array of the buffer as passed, spare capacity included
    n,          \* replace: len(where)
    start,      \* replace: first offset replaced
    end,        \* replace: offset after the last one replaced
    what,       \* replace: the replacement, own bytes or a view of where
    mem,        \* replace: the caller's backing array after the call
    out         \* replace: the returned buffer

scanVars == <<output, oopses, ignores, pc, crash, sig, rep>>
replVars == <<where, n, start, end, what, mem, out>>
vars == <<output, oopses, ignores, pc, crash, sig, rep, where, n, start, end, what, mem, out>>

NoRep == [ status |-> "none", desc |-> <<>>, report |-> <<>>, format |-> NoFormat ]
NilRep == [ NoRep EXCEPT !.status = "nil" ]

\* the outcome of a call of extractDescription as a report record
Outcome(r) ==
    [ status |-> IF r.panic THEN "panic" ELSE "ok",
      desc |-> r.desc, report |-> r.report, format |-> r.format ]

NoWhat == [ view |-> FALSE, bytes |-> <<>>, off |-> 0, len |-> 0 ]

ReplIdle ==
    /\ where = <<>> /\ n = 0 /\ start = 0 /\ end = 0
    /\ what = NoWhat /\ mem = <<>> /\ out = <<>>

Init ==
    /\ output \in Outputs
    /\ oopses \in OopsLists
    /\ ignores \in IgnoreLists
    /\ pc = "ready"
    /\ crash = FALSE
    /\ sig = 0
    /\ rep = NoRep
    /\ ReplIdle

\* Reporter.ContainsCrash
ContainsCrash ==
    /\ pc = "ready"
    /\ crash' = containsCrash(output, oopses, ignores)
    /\ pc' = "detected"
    /\ UNCHANGED <<output, oopses, ignores, sig, rep>>
    /\ UNCHANGED replVars

\* Reporter.Parse: the detector's loop, then extractDescription for the
\* signature the loop accepted
Parse ==
    /\ pc = "ready"
    /\ LET sc == ScanFrom(output, oopses, ignores, 0)
       IN  /\ sig' = sc.oops
           /\ rep' = IF sc.found
                     THEN Outcome(extractDescription(output, oopses[sc.oops]))
                     ELSE NilRep
    /\ pc' = "parsed"
    /\ UNCHANGED <<output, oopses, ignores, crash>>
    /\ UNCHANGED replVars

\* a call of extractDescription for any one signature of the registry
Extract ==
    /\ pc = "ready"
    /\ \E i \in 1 .. Len(oopses) :
        /\ sig' = i
        /\ rep' = Outcome(extractDescription(output, oopses[i]))
    /\ pc' = "extracted"
    /\ UNCHANGED <<output, oopses, ignores, crash>>
    /\ UNCHANGED replVars

Next == ContainsCrash \/ Parse \/ Extract

Spec == Init /\ [][Next]_vars

(* --------------------------- replace, as a run ------------------------ *)

ScanIdle ==
    /\ output = <<>> /\ oopses = <<>> /\ ignores = <<>>
    /\ crash = FALSE /\ sig = 0 /\ rep = NoRep

InitReplace ==
    /\ ScanIdle
    /\ pc = "ready"
    /\ n \in 0 .. MaxWhere
    /\ \E spare \in 0 .. MaxSpare : where = Backing(n + spare)
    /\ start \in 0 .. n
    /\ end \in start .. n
    /\ what \in { OwnWhat(l) : l \in 0 .. MaxWhat }
                \cup { ViewWhat(o, l) : o \in 0 .. n, l \in 0 .. n }
                \cup { CopyWhat(Slice(where, start, end)) }
    /\ what.off + what.len <= n
    /\ mem = where
    /\ out = <<>>

\* a call of replace whose replacement has storage of its own
ReplaceOwn ==
    /\ pc = "ready" /\ ~what.view
    /\ LET r == replace(where, n, start, end, what)
       IN  /\ out' = Slice(r.arr, 0, r.len)
           /\ mem' = r.old
    /\ pc' = "replaced"
    /\ UNCHANGED <<where, n, start, end, what>>
    /\ UNCHANGED <<output, oopses, ignores, crash, sig, rep>>

\* a call of replace whose replacement is a sub-slice of where
ReplaceView ==
    /\ pc = "ready" /\ what.view
    /\ LET r == replace(where, n, start, end, what)
       IN  /\ out' = Slice(r.arr, 0, r.len)
           /\ mem' = r.old
    /\ pc' = "replaced"
    /\ UNCHANGED <<where, n, start, end, what>>
    /\ UNCHANGED <<output, oopses, ignores, crash, sig, rep>>

NextReplace == ReplaceOwn \/ ReplaceView

SpecReplace == InitReplace /\ [][NextReplace]_vars

(* ------------------- vocabulary of the properties --------------------- *)

\* h occurs in s at offset i
OccursAt(s, h, i) ==
    /\ i + Len(h) <= Len(s)
    /\ \A k \in 1 .. Len(h) : s[i + k] = h[k]

Contains(s, h) == \E i \in 0 .. Len(s) : OccursAt(s, h, i)

\* offsets at which a line of o starts: o split at LF, the final
\* unterminated part counting when it is not empty
LineStarts(o) == { p \in 0 .. (Len(o) - 1) : p = 0 \/ o[p] = LF }

\* the line of o starting at offset p, without its LF
LineAt(o, p) ==
    LET e == CHOOSE e \in p .. Len(o) :
                 /\ e = Len(o) \/ o[e + 1] = LF
                 /\ \A j \in (p + 1) .. e : o[j] # LF
    IN  [ k \in 1 .. (e - p) |-> o[p + k] ]

\* the line carries the header and no suppression or ignore pattern matches it
Accepted(line, oops, ign) ==
    /\ Contains(line, oops.header)
    /\ \A k \in 1 .. Len(oops.suppressions) : ~Match(oops.suppressions[k], line)
    /\ \A k \in 1 .. Len(ign) : ~Match(ign[k], line)

\* extractDescription was called for oopses[sig] and returned
Returned == pc \in {"parsed", "extracted"} /\ rep.status = "ok"

\* formats of the called signature whose title pattern matches output
Matching == { k \in 1 .. Len(oopses[sig].formats) :
                Match(oopses[sig].formats[k].title, output) }

MatchStart(k) == FindSubmatchIndex(oopses[sig].formats[k].title, output)[1]

\* offset in output at which the returned report slice starts
ReportStart == Len(output) - Len(rep.report)

\* strip of one trailing CR and cut to 180 bytes, stated on values
Stripped(t) ==
    IF t # <<>> /\ t[Len(t)] = CR THEN [ k \in 1 .. (Len(t) - 1) |-> t[k] ] ELSE t
Cut(t) == [ k \in 1 .. (IF Len(t) < maxDescLen THEN Len(t) ELSE maxDescLen) |-> t[k] ]

(* ------------------------------ properties ---------------------------- *)

\* C1: containsCrash returns true exactly when some line of output carries
\* the header of some signature and matches none of that signature's
\* suppressions and none of the ignores
C1_ContainsCrashIff ==
    pc = "detected" =>
        (crash <=> \E p \in LineStarts(output), i \in 1 .. Len(oopses) :
                       Accepted(LineAt(output, p), oopses[i], ignores))

\* C1 witness: a crash found on a later line after a line that carries a
\* header was rejected
C1_Witness ==
    /\ pc = "detected" /\ crash
    /\ Contains(LineAt(output, 0), oopses[1].header)
    /\ \A i \in 1 .. Len(oopses) : ~Accepted(LineAt(output, 0), oopses[i], ignores)

\* C2: the returned format is the matching one with the smallest match
\* start, the earliest in the list among those that start there
C2_EarliestFormatWins ==
    (Returned /\ Matching # {}) =>
        \E w \in Matching :
            /\ rep.format = oopses[sig].formats[w]
            /\ \A k \in Matching :
                  /\ MatchStart(w) <= MatchStart(k)
                  /\ MatchStart(k) = MatchStart(w) => w <= k

\* C2 witness: the second format of the list wins with a smaller offset
C2_Witness ==
    /\ Returned /\ Matching = {1, 2}
    /\ MatchStart(2) < MatchStart(1)
    /\ rep.format = oopses[sig].formats[2]

\* C2 witness of the tie: both formats match at the same offset
C2_TieReached ==
    /\ Returned /\ Matching = {1, 2}
    /\ MatchStart(2) = MatchStart(1)

\* the title as it stands before the cut to maxDescLen: after the formats
\* loop, the fallback and the strip of a trailing CR
PreTitle ==
    StripCR(Fallback(output, oopses[sig],
                FormatsLoop(output,
                    [ startPos |-> -1, desc |-> <<>>, report |-> <<>>,
                      format |-> NoFormat ],
                    oopses[sig].formats)).desc)

\* C3: a returned title has at most 180 bytes, and is the first 180 bytes
\* of the title before truncation when that one is longer
C3_TitleAtMost180 ==
    Returned =>
        /\ Len(rep.desc) <= maxDescLen
        /\ Len(PreTitle) > maxDescLen =>
              /\ Len(rep.desc) = maxDescLen
              /\ \A k \in 1 .. maxDescLen : rep.desc[k] = PreTitle[k]

\* C3 witness: a title of more than 180 bytes was cut
C3_Witness == Returned /\ Len(PreTitle) > maxDescLen

\* C4: no returned title ends in a carriage return
C4_NoTrailingCR ==
    Returned => (rep.desc = <<>> \/ rep.desc[Len(rep.desc)] # CR)

\* first offset of the header of the called signature in output
HeaderPos == CHOOSE i \in 0 .. Len(output) :
                 /\ OccursAt(output, oopses[sig].header, i)
                 /\ \A j \in 0 .. (i - 1) : ~OccursAt(output, oopses[sig].header, j)

\* output from offset p to the next LF, or to the end of the buffer
UpToLF(p) ==
    LET e == CHOOSE e \in p .. Len(output) :
                 /\ e = Len(output) \/ output[e + 1] = LF
                 /\ \A j \in (p + 1) .. e : output[j] # LF
    IN  [ k \in 1 .. (e - p) |-> output[p + k] ]

Suffix(p) == [ k \in 1 .. (Len(output) - p) |-> output[p + k] ]

\* C5: with no matching format and the header in output, the title is the
\* text from the first header occurrence to the end of its line (CR strip
\* and cut applied) and the report is output from that occurrence on
C5_HeaderFallback ==
    (/\ pc \in {"parsed", "extracted"} /\ sig # 0
     /\ Matching = {}
     /\ Contains(output, oopses[sig].header)) =>
        /\ rep.status = "ok"
        /\ rep.desc = Cut(Stripped(UpToLF(HeaderPos)))
        /\ rep.report = Suffix(HeaderPos)

\* C5 witness: the fallback taken for a header that is neither at the start
\* of output nor on its last line
C5_Witness ==
    /\ Returned /\ Matching = {}
    /\ Contains(output, oopses[sig].header)
    /\ HeaderPos > 0
    /\ Len(UpToLF(HeaderPos)) < Len(Suffix(HeaderPos))

\* the first-in-list format among those with the smallest match start
Winner == CHOOSE w \in Matching :
              \A k \in Matching :
                  /\ MatchStart(w) <= MatchStart(k)
                  /\ MatchStart(k) = MatchStart(w) => w <= k

\* the winner's template rendered with the capture groups of its match
Rendered ==
    LET f == oopses[sig].formats[Winner]
        m == FindSubmatchIndex(f.title, output)
    IN  Sprintf(f.fmt, [ g \in 1 .. ((Len(m) - 2) \div 2) |->
                           [ k \in 1 .. (m[2 * g + 2] - m[2 * g + 1]) |->
                               output[m[2 * g + 1] + k] ] ])

\* C8: when a format matches, the title is the winner's rendered template
\* and the report starts at the winner's match; the header fallback is
\* not taken
C8_FormatTitle ==
    (/\ pc \in {"parsed", "extracted"} /\ sig # 0
     /\ Matching # {}) =>
        /\ rep.status = "ok"
        /\ rep.desc = Cut(Stripped(Rendered))
        /\ rep.report = Suffix(MatchStart(Winner))

\* C9: when the detector accepts the called signature on some line,
\* extractDescription returns; it panics only for a header that occurs
\* nowhere in output
C9_DetectorExtractorAgree ==
    (pc \in {"parsed", "extracted"} /\ sig # 0) =>
        /\ (\E p \in LineStarts(output) :
               Accepted(LineAt(output, p), oopses[sig], ignores))
             => rep.status = "ok"
        /\ rep.status = "panic" => ~Contains(output, oopses[sig].header)

\* C9 witness: the signature is accepted on a line, no format matches,
\* and the fallback finds the header
C9_Witness ==
    /\ Returned /\ Matching = {}
    /\ \E p \in LineStarts(output) :
           Accepted(LineAt(output, p), oopses[sig], ignores)

\* C9: the panic is reached for a signature whose header is absent
C9_PanicReached == pc = "extracted" /\ rep.status = "panic"

\* start of the first line on which some signature is accepted
FirstAccepted ==
    CHOOSE p \in LineStarts(output) :
        /\ \E i \in 1 .. Len(oopses) : Accepted(LineAt(output, p), oopses[i], ignores)
        /\ \A q \in LineStarts(output) :
              (\E i \in 1 .. Len(oopses) : Accepted(LineAt(output, q), oopses[i], ignores))
                  => p <= q

\* the line of output that holds offset p
LineOfOffset(p) == CHOOSE q \in LineStarts(output) \cup {0} :
                       /\ q <= p
                       /\ \A r \in LineStarts(output) : r <= p => r <= q

\* the line starting at q carries the header of the called signature, or a
\* match of one of its formats, and a suppression or an ignore pattern
\* rejects it
Rejected(q) ==
    LET line == LineAt(output, q)
    IN  /\ \/ Contains(line, oopses[sig].header)
           \/ \E k \in 1 .. Len(oopses[sig].formats) :
                  Match(oopses[sig].formats[k].title, line)
        /\ \/ \E k \in 1 .. Len(oopses[sig].suppressions) :
                  Match(oopses[sig].suppressions[k], line)
           \/ \E k \in 1 .. Len(ignores) : Match(ignores[k], line)

\* C10: after the detector's loop, the title and report that Parse gets
\* from extractDescription do not start on a line before the accepted one
\* that a suppression or ignore pattern rejected
C10_NotOnRejectedLine ==
    (pc = "parsed" /\ rep.status = "ok" /\ ReportStart < FirstAccepted)
        => ~Rejected(LineOfOffset(ReportStart))

C6_ShrinkReached ==
    /\ pc = "replaced" /\ ~what.view
    /\ Len(what.bytes) < end - start
    /\ n - end > (end - start) - Len(what.bytes)

\* the replacement is the replaced range itself: a view of it, or a copy
SelfRange ==
    IF what.view THEN what.off = start /\ what.len = end - start
    ELSE what.bytes = Slice(where, start, end)

\* C7: replacing a range with itself returns the buffer unchanged
C7_ReplaceSelfIdentity ==
    (pc = "replaced" /\ SelfRange) =>
        /\ Len(out) = n
        /\ \A i \in 1 .. n : out[i] = where[i]

\* C7 witness: a non-empty inner range replaced by a view of itself
C7_Witness ==
    /\ pc = "replaced" /\ what.view /\ SelfRange
    /\ 0 < start /\ start < end /\ end < n

====
